---------------------------- MODULE Spec2Model ----------------------------
(***************************************************************************)
(* Cobra Risk Dashboard: the page component (useLocalState hooks, derived  *)
(* metrics, status classification, config export) and the preset table.    *)
(*                                                                         *)
(* JavaScript Numbers are IEEE-754 binary64.  The session inputs are kept  *)
(* as integers (every integer used is exactly representable); every value  *)
(* the code obtains by a division or a multiplication is a Float record    *)
(* [sgn, man, exp] standing for (-1)^sgn * man * 2^exp, man an unbounded   *)
(* natural held as little-endian limbs, rounded to 53 significant bits,    *)
(* ties to even, after every operation, as the hardware does.  Magnitudes  *)
(* stay far from the exponent limits, so no overflow or subnormal arises.  *)
(***************************************************************************)
EXTENDS Integers, Sequences, FiniteSets, TLC

-----------------------------------------------------------------------------
(* Unbounded naturals: little-endian limb sequences, no high zero limb.    *)

BASE == 2^14

RECURSIVE IntBitLen(_)
IntBitLen(n) == IF n = 0 THEN 0 ELSE 1 + IntBitLen(n \div 2)

\* bits per limb
LimbBits == IntBitLen(BASE) - 1

RECURSIVE BNorm(_)
BNorm(a) ==
    IF a = <<>> THEN <<>>
    ELSE IF a[Len(a)] = 0 THEN BNorm(SubSeq(a, 1, Len(a) - 1))
    ELSE a

RECURSIVE BFromInt(_)
BFromInt(n) ==
    IF n = 0 THEN <<>> ELSE <<n % BASE>> \o BFromInt(n \div BASE)

RECURSIVE BToInt(_)
BToInt(a) ==
    IF a = <<>> THEN 0 ELSE a[1] + BASE * BToInt(Tail(a))

RECURSIVE BAddC(_, _, _)
BAddC(a, b, c) ==
    IF a = <<>> /\ b = <<>> THEN (IF c = 0 THEN <<>> ELSE <<c>>)
    ELSE LET x == IF a = <<>> THEN 0 ELSE a[1]
             y == IF b = <<>> THEN 0 ELSE b[1]
             s == x + y + c
         IN  <<s % BASE>> \o BAddC(IF a = <<>> THEN <<>> ELSE Tail(a),
                                   IF b = <<>> THEN <<>> ELSE Tail(b),
                                   s \div BASE)

BAdd(a, b) == BAddC(a, b, 0)

\* a - b for a >= b, before normalisation
RECURSIVE BSubC(_, _, _)
BSubC(a, b, c) ==
    IF a = <<>> THEN <<>>
    ELSE LET y == IF b = <<>> THEN 0 ELSE b[1]
             d == a[1] - y - c
         IN  <<d % BASE>> \o BSubC(Tail(a),
                                   IF b = <<>> THEN <<>> ELSE Tail(b),
                                   IF d < 0 THEN 1 ELSE 0)

BSub(a, b) == BNorm(BSubC(a, b, 0))

\* -1, 0, 1 as a < b, a = b, a > b
RECURSIVE BCmpAt(_, _, _)
BCmpAt(a, b, i) ==
    IF i = 0 THEN 0
    ELSE IF a[i] < b[i] THEN -1
    ELSE IF a[i] > b[i] THEN 1
    ELSE BCmpAt(a, b, i - 1)

BCmp(a, b) ==
    IF Len(a) < Len(b) THEN -1
    ELSE IF Len(a) > Len(b) THEN 1
    ELSE BCmpAt(a, b, Len(a))

\* a * d + c for one limb d
RECURSIVE BMulLimb(_, _, _)
BMulLimb(a, d, c) ==
    IF a = <<>> THEN (IF c = 0 THEN <<>> ELSE <<c>>)
    ELSE LET p == a[1] * d + c
         IN  <<p % BASE>> \o BMulLimb(Tail(a), d, p \div BASE)

\* a * BASE
BShiftLimb(a) == IF a = <<>> THEN <<>> ELSE <<0>> \o a

RECURSIVE BMul(_, _)
BMul(a, b) ==
    IF a = <<>> \/ b = <<>> THEN <<>>
    ELSE BAdd(BMulLimb(a, b[1], 0), BShiftLimb(BMul(a, Tail(b))))

\* long division by a small divisor d (d * BASE fits an int), from limb i
\* down, with remainder r carried in and the quotient limbs so far in q
RECURSIVE BDivAt(_, _, _, _, _)
BDivAt(a, d, i, r, q) ==
    IF i = 0 THEN [q |-> BNorm(q), r |-> r]
    ELSE BDivAt(a, d, i - 1, (r * BASE + a[i]) % d, <<(r * BASE + a[i]) \div d>> \o q)

\* floor(a / d) and a mod d
BDivSmall(a, d) == BDivAt(a, d, Len(a), 0, <<>>)

RECURSIVE Zeros(_)
Zeros(n) == IF n = 0 THEN <<>> ELSE <<0>> \o Zeros(n - 1)

\* a * 2^n
BShl(a, n) ==
    IF a = <<>> THEN <<>>
    ELSE Zeros(n \div LimbBits) \o BMulLimb(a, 2^(n % LimbBits), 0)

\* floor(a / 2^n)
BShr(a, n) ==
    LET k == n \div LimbBits
    IN  IF k >= Len(a) THEN <<>>
        ELSE BDivSmall(SubSeq(a, k + 1, Len(a)), 2^(n % LimbBits)).q

\* a mod 2^n
BLow(a, n) == BSub(a, BShl(BShr(a, n), n))

BBitLen(a) ==
    IF a = <<>> THEN 0 ELSE LimbBits * (Len(a) - 1) + IntBitLen(a[Len(a)])

BOdd(a) == a # <<>> /\ a[1] % 2 = 1

-----------------------------------------------------------------------------
(* IEEE-754 binary64 values and the operations the page applies to them.   *)

\* significand bits of a binary64 Number
Precision == 53

Float(s, m, e) == [sgn |-> s, man |-> m, exp |-> e]

FZero(s) == Float(s, <<>>, 0)

\* a significand q that rounding may have carried to one bit too many
FRenorm(s, q, e) ==
    IF BBitLen(q) > Precision THEN Float(s, BShr(q, 1), e + 1) ELSE Float(s, q, e)

\* q, the kept bits, rounded by the dropped ones: c compares them with one
\* half, sticky says more nonzero bits lie below them; ties to even
FRoundUp(s, q, e, c, sticky) ==
    IF c > 0 \/ (c = 0 /\ (sticky \/ BOdd(q)))
    THEN FRenorm(s, BAdd(q, <<1>>), e)
    ELSE Float(s, q, e)

\* m of n bits, at Precision bits
FRoundBits(s, m, e, sticky, n) ==
    IF n = 0 THEN FZero(s)
    ELSE IF n <= Precision
         THEN Float(s, BShl(m, Precision - n), e - (Precision - n))
    ELSE FRoundUp(s, BShr(m, n - Precision), e + (n - Precision),
                  BCmp(BLow(m, n - Precision), BShl(<<1>>, n - Precision - 1)),
                  sticky)

\* The double nearest to (-1)^s * (m + f) * 2^e, where 0 <= f < 1 and
\* sticky says f > 0; ties to even.
FRound(s, m, e, sticky) == FRoundBits(s, m, e, sticky, BBitLen(m))

Abs(n) == IF n < 0 THEN -n ELSE n

\* An integer as a Number
FFromInt(n) == FRound(IF n < 0 THEN 1 ELSE 0, BFromInt(Abs(n)), 0, FALSE)

\* quotient bits kept before rounding
DivShift == 2 * Precision

\* the quotient d.q with remainder d.r, scaled by 2^-DivShift, as a Number
FQuotient(s, d) == FRound(s, d.q, -DivShift, d.r # 0)

\* a / b for integers a and b, b > 0
FDivInt(a, b) ==
    FQuotient(IF a < 0 THEN 1 ELSE 0, BDivSmall(BShl(BFromInt(Abs(a)), DivShift), b))

FNeg(x) == Float(1 - x.sgn, x.man, x.exp)

FAbs(x) == Float(0, x.man, x.exp)

FIsZero(x) == x.man = <<>>

FMul(x, y) ==
    FRound((x.sgn + y.sgn) % 2, BMul(x.man, y.man), x.exp + y.exp, FALSE)

Min(a, b) == IF a < b THEN a ELSE b

\* x.man at exponent e <= x.exp
Aligned(x, e) == BShl(x.man, x.exp - e)

\* -1, 0, 1 as |x| < |y|, |x| = |y|, |x| > |y|
FCmpMag(x, y) ==
    IF FIsZero(x) THEN (IF FIsZero(y) THEN 0 ELSE -1)
    ELSE IF FIsZero(y) THEN 1
    ELSE BCmp(Aligned(x, Min(x.exp, y.exp)), Aligned(y, Min(x.exp, y.exp)))

\* -1, 0, 1 as x < y, x = y, x > y (-0 equals +0)
FCmp(x, y) ==
    IF FIsZero(x) /\ FIsZero(y) THEN 0
    ELSE IF FIsZero(x) THEN (IF y.sgn = 1 THEN 1 ELSE -1)
    ELSE IF FIsZero(y) THEN (IF x.sgn = 1 THEN -1 ELSE 1)
    ELSE IF x.sgn # y.sgn THEN (IF x.sgn = 1 THEN -1 ELSE 1)
    ELSE IF x.sgn = 0 THEN FCmpMag(x, y) ELSE -FCmpMag(x, y)

FGt(x, y) == FCmp(x, y) > 0
FLe(x, y) == FCmp(x, y) <= 0
FEq(x, y) == FCmp(x, y) = 0

\* the sum of (-1)^sx * mx * 2^e and (-1)^sy * my * 2^e, neither zero
FAddAligned(sx, mx, sy, my, e) ==
    IF sx = sy THEN FRound(sx, BAdd(mx, my), e, FALSE)
    ELSE IF BCmp(mx, my) = 0 THEN FZero(0)
    ELSE IF BCmp(mx, my) > 0 THEN FRound(sx, BSub(mx, my), e, FALSE)
    ELSE FRound(sy, BSub(my, mx), e, FALSE)

FAdd(x, y) ==
    IF FIsZero(x) /\ FIsZero(y) THEN FZero(IF x.sgn = 1 /\ y.sgn = 1 THEN 1 ELSE 0)
    ELSE IF FIsZero(x) THEN y
    ELSE IF FIsZero(y) THEN x
    ELSE FAddAligned(x.sgn, Aligned(x, Min(x.exp, y.exp)),
                     y.sgn, Aligned(y, Min(x.exp, y.exp)), Min(x.exp, y.exp))

FSub(x, y) == FAdd(x, FNeg(y))

\* floor(m / 2^k + 1/2)
RoundHalfUp(m, k) == BToInt(BShr(BAdd(m, BShl(<<1>>, k - 1)), k))

\* ceil(d / 2^k)
CeilShift(d, k) == BToInt(BShr(d, k)) + (IF BLow(d, k) = <<>> THEN 0 ELSE 1)

\* Math.round(x) as the template literal prints it: floor(x + 1/2), -0 as 0
MathRound(x) ==
    IF FIsZero(x) THEN 0
    ELSE IF x.exp >= 0 THEN (IF x.sgn = 1 THEN -1 ELSE 1) * BToInt(BShl(x.man, x.exp))
    ELSE IF x.sgn = 0 THEN RoundHalfUp(x.man, -x.exp)
    ELSE IF BCmp(x.man, BShl(<<1>>, -x.exp - 1)) < 0 THEN 0
    ELSE -CeilShift(BSub(x.man, BShl(<<1>>, -x.exp - 1)), -x.exp)

\* The Number a decimal literal with digits n and s fraction digits denotes
Dec(n, s) == FDivInt(n, 10^s)

-----------------------------------------------------------------------------
(* The preset table (lib/calc.ts).                                         *)

Modes == {"Conservative", "Standard", "Aggressive", "Custom"}

RatioFields ==
    {"dailyLossLimit", "totalLossLimit", "perSymbolLossLimit",
     "perSymbolExposureLimit", "totalExposureLimit", "profitLockStart",
     "profitLockDrawdown"}

FlagFields == {"autoStopLoss", "disableNewOrders", "liquidateAllPositions"}

CapFields == {"maxSharesPerPosition", "maxOrderSize", "maxDailyTrades", "maxPositions"}

\* the properties of a RiskSettings object, in declaration order
FieldOrder ==
    <<"dailyLossLimit", "totalLossLimit", "perSymbolLossLimit",
      "perSymbolExposureLimit", "totalExposureLimit", "profitLockStart",
      "profitLockDrawdown", "stopTime", "autoStopLoss", "disableNewOrders",
      "liquidateAllPositions", "maxSharesPerPosition", "maxOrderSize",
      "maxDailyTrades", "maxPositions">>

Fields == {FieldOrder[i] : i \in 1..Len(FieldOrder)}

PRESET_MAP ==
    [Conservative |->
        [dailyLossLimit |-> FFromInt(0), totalLossLimit |-> Dec(8, 2),
         perSymbolLossLimit |-> Dec(15, 3), perSymbolExposureLimit |-> Dec(10, 2),
         totalExposureLimit |-> Dec(40, 2), profitLockStart |-> Dec(6, 2),
         profitLockDrawdown |-> Dec(30, 2), stopTime |-> "15:30",
         autoStopLoss |-> TRUE, disableNewOrders |-> TRUE,
         liquidateAllPositions |-> TRUE, maxSharesPerPosition |-> 10000,
         maxOrderSize |-> 5000, maxDailyTrades |-> 50, maxPositions |-> 5],
     Standard |->
        [dailyLossLimit |-> FFromInt(0), totalLossLimit |-> Dec(12, 2),
         perSymbolLossLimit |-> Dec(2, 2), perSymbolExposureLimit |-> Dec(15, 2),
         totalExposureLimit |-> Dec(50, 2), profitLockStart |-> Dec(9, 2),
         profitLockDrawdown |-> Dec(30, 2), stopTime |-> "15:30",
         autoStopLoss |-> TRUE, disableNewOrders |-> TRUE,
         liquidateAllPositions |-> TRUE, maxSharesPerPosition |-> 20000,
         maxOrderSize |-> 10000, maxDailyTrades |-> 100, maxPositions |-> 10],
     Aggressive |->
        [dailyLossLimit |-> FFromInt(0), totalLossLimit |-> Dec(15, 2),
         perSymbolLossLimit |-> Dec(25, 3), perSymbolExposureLimit |-> Dec(20, 2),
         totalExposureLimit |-> Dec(60, 2), profitLockStart |-> Dec(12, 2),
         profitLockDrawdown |-> Dec(35, 2), stopTime |-> "15:30",
         autoStopLoss |-> TRUE, disableNewOrders |-> TRUE,
         liquidateAllPositions |-> TRUE, maxSharesPerPosition |-> 50000,
         maxOrderSize |-> 25000, maxDailyTrades |-> 200, maxPositions |-> 20],
     Custom |->
        [dailyLossLimit |-> FFromInt(0), totalLossLimit |-> FFromInt(0),
         perSymbolLossLimit |-> FFromInt(0), perSymbolExposureLimit |-> FFromInt(0),
         totalExposureLimit |-> FFromInt(0), profitLockStart |-> FFromInt(0),
         profitLockDrawdown |-> FFromInt(0), stopTime |-> "",
         autoStopLoss |-> FALSE, disableNewOrders |-> FALSE,
         liquidateAllPositions |-> FALSE, maxSharesPerPosition |-> 0,
         maxOrderSize |-> 0, maxDailyTrades |-> 0, maxPositions |-> 0]]

-----------------------------------------------------------------------------
(* JSON text.  A scalar's text is its sequence of characters (a string's   *)
(* content is kept as one element between its quotes); an object's text is *)
(* the sequence of its members <<name, text>> in property order.           *)

DigitChars == <<"0", "1", "2", "3", "4", "5", "6", "7", "8", "9">>

RECURSIVE DigitsOf(_)
DigitsOf(n) ==
    IF n < 10 THEN <<DigitChars[n + 1]>>
    ELSE DigitsOf(n \div 10) \o <<DigitChars[(n % 10) + 1]>>

DigitValue(c) == CHOOSE d \in 0..9 : DigitChars[d + 1] = c

RECURSIVE ValueOfDigits(_)
ValueOfDigits(t) ==
    IF t = <<>> THEN 0
    ELSE 10 * ValueOfDigits(SubSeq(t, 1, Len(t) - 1)) + DigitValue(t[Len(t)])

\* most fraction digits tried when printing a Number
MaxFractionDigits == 4

\* the integer nearest to m * 2^e
NearestInt(m, e) == IF e >= 0 THEN BToInt(BShl(m, e)) ELSE RoundHalfUp(m, -e)

\* the integer nearest to |x| * 10^s
Scaled(x, s) == NearestInt(BMul(x.man, BFromInt(10^s)), x.exp)

\* the fewest fraction digits whose decimal reads back as x
ShortestScale(x) ==
    CHOOSE s \in 0..MaxFractionDigits :
        /\ FDivInt(Scaled(x, s), 10^s) = FAbs(x)
        /\ \A r \in 0..(s - 1) : FDivInt(Scaled(x, r), 10^r) # FAbs(x)

RECURSIVE PadZeros(_, _)
PadZeros(t, n) == IF Len(t) >= n THEN t ELSE PadZeros(<<"0">> \o t, n)

\* the decimal n * 10^-s, with its sign
DecimalText(sgn, n, s) ==
    (IF sgn = 1 THEN <<"-">> ELSE <<>>)
        \o DigitsOf(n \div 10^s)
        \o (IF s = 0 THEN <<>> ELSE <<".">> \o PadZeros(DigitsOf(n % 10^s), s))

\* x printed with s fraction digits
FixedText(x, s) == DecimalText(x.sgn, Scaled(x, s), s)

\* Number::toString of a Number held as a Float
FloatText(x) == IF FIsZero(x) THEN <<"0">> ELSE FixedText(x, ShortestScale(x))

\* Number::toString of a Number held as an integer
IntText(n) == IF n < 0 THEN <<"-">> \o DigitsOf(-n) ELSE DigitsOf(n)

Unsigned(t) == IF t # <<>> /\ t[1] = "-" THEN Tail(t) ELSE t

\* where the decimal point stands, or past the end
PointAt(t) ==
    IF \E i \in 1..Len(t) : t[i] = "."
    THEN CHOOSE i \in 1..Len(t) : t[i] = "."
    ELSE Len(t) + 1

\* the Number the unsigned decimal u denotes, its point at p, negated if neg
ParseDecimal(u, p, neg) ==
    FDivInt((IF neg THEN -1 ELSE 1)
                * ValueOfDigits(SubSeq(u, 1, p - 1) \o SubSeq(u, p + 1, Len(u))),
            10^(IF p > Len(u) THEN 0 ELSE Len(u) - p))

\* the Number a JSON number text denotes, as a Float
ParseFloat(t) == ParseDecimal(Unsigned(t), PointAt(Unsigned(t)), Unsigned(t) # t)

\* the Number an integer JSON number text denotes
ParseInt(t) ==
    IF Unsigned(t) # t THEN -ValueOfDigits(Unsigned(t)) ELSE ValueOfDigits(t)

Quote == "\""

StringText(s) == <<Quote, s, Quote>>

ParseString(t) == t[2]

BoolText(b) == IF b THEN <<"true">> ELSE <<"false">>

ParseBool(t) == t = <<"true">>

FieldText(f, v) ==
    IF f \in RatioFields THEN FloatText(v)
    ELSE IF f \in CapFields THEN IntText(v)
    ELSE IF f \in FlagFields THEN BoolText(v)
    ELSE StringText(v)

ParseField(f, t) ==
    IF f \in RatioFields THEN ParseFloat(t)
    ELSE IF f \in CapFields THEN ParseInt(t)
    ELSE IF f \in FlagFields THEN ParseBool(t)
    ELSE ParseString(t)

\* JSON.stringify of a RiskSettings object
SettingsText(cs) ==
    [i \in 1..Len(FieldOrder) |-> <<FieldOrder[i], FieldText(FieldOrder[i], cs[FieldOrder[i]])>>]

Member(t, f) == t[CHOOSE i \in 1..Len(t) : t[i][1] = f][2]

\* JSON.parse of a RiskSettings object's text
ParseSettings(t) ==
    [f \in {t[i][1] : i \in 1..Len(t)} |-> ParseField(f, Member(t, f))]

-----------------------------------------------------------------------------
(* The page: six useLocalState hooks, the browser's localStorage, the      *)
(* pending passive effects, the useMemo cell and the last downloaded file. *)

VARIABLES
    mode,            \* useLocalState("risk_mode")
    equity,          \* useLocalState("equity")
    priorEquity,     \* useLocalState("prior_equity")
    todaysPnL,       \* useLocalState("todays_pnl")
    haltedExposure,  \* useLocalState("halted_exposure")
    customSettings,  \* useLocalState("custom_settings_v2")
    hydrated,        \* each hook's isHydrated
    drawdownMemo,    \* the useMemo cell of drawdown: its deps and value
    localStorage,    \* key -> JSON text, for the keys that hold an item
    page,            \* "closed" or "open"
    pendingEffects,  \* "mount", "update" or "none": effects not yet flushed
    exported,        \* the RiskControl.cfg the last action downloaded
    lastCustomEdit,  \* history: what the user's last edit or reset made
    sinceEdit,       \* history: what happened since then ("preset", "restart")
    edits            \* history: edits made so far

vars ==
    <<mode, equity, priorEquity, todaysPnL, haltedExposure, customSettings,
      hydrated, drawdownMemo, localStorage, page, pendingEffects, exported,
      lastCustomEdit, sinceEdit, edits>>

Keys ==
    {"risk_mode", "equity", "prior_equity", "todays_pnl", "halted_exposure",
     "custom_settings_v2"}

\* bounds of the exploration
MaxEdits == 2

ModeInputs == Modes
EquityInputs == {0, 100000}
PriorEquityInputs == {0, 50000}
TodaysPnLInputs == {-2500}
HaltedExposureInputs == {-1, 22001}
PercentInputs == {5, 150}
StopTimeInputs == {"09:45"}
CapInputs == {100}

NoExport == <<>>

-----------------------------------------------------------------------------
(* useLocalState                                                           *)

HasItem(key) == key \in DOMAIN localStorage

\* localStorage.setItem(key, text)
SetItem(store, key, text) ==
    [k \in (DOMAIN store) \cup {key} |-> IF k = key THEN text ELSE store[k]]

\* localStorage.getItem(key): the item's text, the empty text for null
GetItem(key) == IF HasItem(key) THEN localStorage[key] ELSE <<>>

\* the load effect: setVal(parsed) when getItem returned a non-empty text;
\* else the hook keeps val
Loaded(key, parsed, val) == IF GetItem(key) # <<>> THEN parsed ELSE val

\* fault: the persist effect does not wait for isHydrated
PersistUnguarded(store, key, text, isHydrated) == SetItem(store, key, text)

\* the persist effect of one hook, run against store
Persist(store, key, text, isHydrated) ==
    IF isHydrated THEN SetItem(store, key, text) ELSE store

\* the six persist effects, each with its hook's isHydrated and val
PersistAll(store, h, m, e, p, t, x, c) ==
    LET s1 == Persist(store, "risk_mode", StringText(m), h["risk_mode"])
        s2 == Persist(s1, "equity", IntText(e), h["equity"])
        s3 == Persist(s2, "prior_equity", IntText(p), h["prior_equity"])
        s4 == Persist(s3, "todays_pnl", IntText(t), h["todays_pnl"])
        s5 == Persist(s4, "halted_exposure", IntText(x), h["halted_exposure"])
    IN  Persist(s5, "custom_settings_v2", SettingsText(c), h["custom_settings_v2"])

modeHydrated == hydrated["risk_mode"]
equityHydrated == hydrated["equity"]
priorEquityHydrated == hydrated["prior_equity"]
todaysPnLHydrated == hydrated["todays_pnl"]
haltedExposureHydrated == hydrated["halted_exposure"]
customSettingsHydrated == hydrated["custom_settings_v2"]

isHydrated ==
    /\ modeHydrated /\ equityHydrated /\ priorEquityHydrated
    /\ todaysPnLHydrated /\ haltedExposureHydrated /\ customSettingsHydrated

-----------------------------------------------------------------------------
(* What one render computes (Page, before the JSX).                        *)

validationErrors ==
    [equity |-> equity <= 0, priorEquity |-> priorEquity <= 0,
     haltedExposure |-> haltedExposure < 0]

hasValidationErrors ==
    validationErrors.equity \/ validationErrors.priorEquity
        \/ validationErrors.haltedExposure

\* fault: the mode is ignored, the custom settings are always the active ones
currentSettingsCustomOnly == customSettings

currentSettings == IF mode = "Custom" THEN customSettings ELSE PRESET_MAP[mode]

\* fault: the guard tests priorEquity against 0 for inequality
ComputeDrawdownNonZeroGuard(e, p) ==
    IF p # 0 THEN FSub(FDivInt(e * (IF p < 0 THEN -1 ELSE 1), Abs(p)), FFromInt(1))
    ELSE FFromInt(0)

\* the function useMemo wraps
ComputeDrawdown(e, p) ==
    IF p > 0 THEN FSub(FDivInt(e, p), FFromInt(1)) ELSE FFromInt(0)

\* fault: priorEquity is missing from the dependency list
UseMemoEquityOnly(cell, e, p) ==
    IF cell.deps[1] = e THEN cell
    ELSE [deps |-> <<e, p>>, value |-> ComputeDrawdown(e, p)]

\* useMemo(..., [equity, priorEquity]): recomputed when a dependency changed
UseMemo(cell, e, p) ==
    IF cell.deps = <<e, p>> THEN cell
    ELSE [deps |-> <<e, p>>, value |-> ComputeDrawdown(e, p)]

drawdown == drawdownMemo.value

Status(danger, caution) ==
    IF danger THEN "Danger" ELSE IF caution THEN "Caution" ELSE "Safe"

drawdownStatus ==
    Status(FLe(drawdown, FNeg(Dec(10, 2))), FLe(drawdown, FNeg(Dec(5, 2))))

dayLossLimit == FNeg(FMul(FFromInt(equity), currentSettings.dailyLossLimit))
totalLossLimit == FNeg(FMul(FFromInt(equity), currentSettings.totalLossLimit))
\* fault: the per-symbol loss limit is not negated
perSymbolLimitNotNegated == FMul(FFromInt(equity), currentSettings.perSymbolLossLimit)

perSymbolLimit == FNeg(FMul(FFromInt(equity), currentSettings.perSymbolLossLimit))
perTickerExposure == FMul(FFromInt(equity), currentSettings.perSymbolExposureLimit)
totalExposure == FMul(FFromInt(equity), currentSettings.totalExposureLimit)
profitLockStart == FMul(FFromInt(equity), currentSettings.profitLockStart)
profitLockDrawdown == currentSettings.profitLockDrawdown

\* fault: the realized loss is added to the limit
remainingBudgetAdded == FAdd(dayLossLimit, FFromInt(todaysPnL))

remainingBudget == FSub(dayLossLimit, FFromInt(todaysPnL))
\* fault: a profit does not count as loss used
lossUsedLossesOnly == FAbs(FFromInt(Min(todaysPnL, 0)))

lossUsed == FAbs(FFromInt(todaysPnL))
lossLimit == FAbs(dayLossLimit)

\* fault: the thresholds are compared with >=
remainingStatusInclusive ==
    Status(~FGt(FMul(Dec(8, 1), lossLimit), lossUsed),
           ~FGt(FMul(Dec(5, 1), lossLimit), lossUsed))

remainingStatus ==
    Status(FGt(lossUsed, FMul(Dec(8, 1), lossLimit)),
           FGt(lossUsed, FMul(Dec(5, 1), lossLimit)))

totalUnrealizedLoss == 0
totalLossUsed == FAdd(FFromInt(todaysPnL), FFromInt(totalUnrealizedLoss))
totalLossRemaining == FSub(totalLossLimit, totalLossUsed)
haltedPct == IF equity > 0 THEN FDivInt(haltedExposure, equity) ELSE FFromInt(0)

\* fault: the thresholds are compared with >=
haltedStatusInclusive ==
    Status(~FGt(Dec(40, 2), haltedPct), ~FGt(Dec(20, 2), haltedPct))

haltedStatus == Status(FGt(haltedPct, Dec(40, 2)), FGt(haltedPct, Dec(20, 2)))

\* fault: the daily-loss trigger is set at 70% of the limit
flattenNowAtSeventyPercent ==
    FGt(lossUsed, FMul(Dec(7, 1), lossLimit)) \/ FGt(haltedPct, Dec(40, 2))

\* fault: the halted threshold is compared with >=
flattenNowInclusive ==
    FGt(lossUsed, FMul(Dec(9, 1), lossLimit)) \/ ~FGt(Dec(40, 2), haltedPct)

flattenNow == FGt(lossUsed, FMul(Dec(9, 1), lossLimit)) \/ FGt(haltedPct, Dec(40, 2))

statusColor(s) ==
    IF s = "Danger" THEN "bg-danger" ELSE IF s = "Caution" THEN "bg-caution" ELSE "bg-safe"

statusIcon(s) ==
    IF s = "Danger" THEN "red" ELSE IF s = "Caution" THEN "yellow" ELSE "green"

\* the Total Loss Used chip: its class, its icon and its label
totalLossChipColor ==
    IF FGt(FAbs(totalLossUsed), FMul(FAbs(totalLossLimit), Dec(8, 1))) THEN "bg-danger"
    ELSE IF FGt(FAbs(totalLossUsed), FMul(FAbs(totalLossLimit), Dec(5, 1))) THEN "bg-caution"
    ELSE "bg-safe"

totalLossChipIcon ==
    statusIcon(Status(FGt(FAbs(totalLossUsed), FMul(FAbs(totalLossLimit), Dec(8, 1))),
                      FGt(FAbs(totalLossUsed), FMul(FAbs(totalLossLimit), Dec(5, 1)))))

totalLossChipLabel ==
    IF FGt(FAbs(totalLossRemaining), FMul(FAbs(totalLossLimit), Dec(2, 1)))
    THEN "Safe" ELSE "Danger"

\* fault: the Loading... return is missing
RenderedBeforeHydration == page = "open"

\* the page shows its content, not the loading card
Rendered == page = "open" /\ isHydrated

\* fault: the fraction is cut off instead of rounded
RoundTextTruncated(x) ==
    IntText((IF x.sgn = 1 THEN -1 ELSE 1)
                * (IF x.exp >= 0 THEN BToInt(BShl(x.man, x.exp))
                   ELSE BToInt(BShr(x.man, -x.exp))))

\* the text a template literal gives a Number held as a Float, rounded
RoundText(x) == IntText(MathRound(x))

\* the lines of RiskControl.cfg: <<key, value>>, "#" a comment, "" a blank line
CfgLines ==
    << <<"#", <<"DAS Risk Control Configuration">>>>,
       <<"#", <<"Generated by COBRA Risk Dashboard">>>>,
       <<"#", <<"Mode: ", mode>>>>,
       <<"", <<>>>>,
       <<"#", <<"Basic Risk Limits">>>>,
       <<"DayLossLimit", RoundText(dayLossLimit)>>,
       <<"TotalLossLimit", RoundText(totalLossLimit)>>,
       <<"PosUnrealLossLimit", RoundText(perSymbolLimit)>>,
       <<"PosMktValueLimit", RoundText(perTickerExposure)>>,
       <<"OpenPosValueLimit", RoundText(totalExposure)>>,
       <<"", <<>>>>,
       <<"#", <<"Profit Protection">>>>,
       <<"ProfitLockStart", RoundText(profitLockStart)>>,
       <<"ProfitLockDrawdown%", RoundText(FMul(profitLockDrawdown, FFromInt(100)))>>,
       <<"", <<>>>>,
       <<"#", <<"Trading Controls">>>>,
       <<"StopTime", <<currentSettings.stopTime>>>>,
       <<"AutoStopLoss", IntText(IF currentSettings.autoStopLoss THEN 1 ELSE 0)>>,
       <<"DisableNewOrders", IntText(IF currentSettings.disableNewOrders THEN 1 ELSE 0)>>,
       <<"LiquidateAllPositions",
         IntText(IF currentSettings.liquidateAllPositions THEN 1 ELSE 0)>>,
       <<"", <<>>>>,
       <<"#", <<"Advanced Controls">>>>,
       <<"MaxSharesPerPosition", IntText(currentSettings.maxSharesPerPosition)>>,
       <<"MaxOrderSize", IntText(currentSettings.maxOrderSize)>>,
       <<"MaxDailyTrades", IntText(currentSettings.maxDailyTrades)>>,
       <<"MaxPositions", IntText(currentSettings.maxPositions)>> >>

-----------------------------------------------------------------------------
(* Actions                                                                 *)

DefaultMemo == [deps |-> <<55000, 55000>>, value |-> ComputeDrawdown(55000, 55000)]

\* the hooks' useState initial values
Unhydrated ==
    /\ mode = "Standard"
    /\ equity = 55000
    /\ priorEquity = 55000
    /\ todaysPnL = 0
    /\ haltedExposure = 0
    /\ customSettings = PRESET_MAP.Custom
    /\ hydrated = [k \in Keys |-> FALSE]
    /\ drawdownMemo = DefaultMemo

Init ==
    /\ Unhydrated
    /\ localStorage = <<>>
    /\ page = "open"
    /\ pendingEffects = "mount"
    /\ exported = NoExport
    /\ lastCustomEdit = PRESET_MAP.Custom
    /\ sinceEdit = {}
    /\ edits = 0

\* the page is opened: first render, from the initial values
Mount ==
    /\ page = "closed"
    /\ page' = "open"
    /\ pendingEffects' = "mount"
    /\ sinceEdit' = sinceEdit \cup {"restart"}
    /\ UNCHANGED <<mode, equity, priorEquity, todaysPnL, haltedExposure,
                   customSettings, hydrated, drawdownMemo, localStorage, exported,
                   lastCustomEdit, edits>>

\* the effects of the first render: each hook's load effect, and its persist
\* effect with the isHydrated of that render; then the render they cause
MountEffects ==
    /\ page = "open" /\ pendingEffects = "mount"
    /\ mode' = Loaded("risk_mode", ParseString(GetItem("risk_mode")), mode)
    /\ equity' = Loaded("equity", ParseInt(GetItem("equity")), equity)
    /\ priorEquity' = Loaded("prior_equity", ParseInt(GetItem("prior_equity")), priorEquity)
    /\ todaysPnL' = Loaded("todays_pnl", ParseInt(GetItem("todays_pnl")), todaysPnL)
    /\ haltedExposure' = Loaded("halted_exposure", ParseInt(GetItem("halted_exposure")), haltedExposure)
    /\ customSettings' = Loaded("custom_settings_v2",
                                ParseSettings(GetItem("custom_settings_v2")),
                                customSettings)
    /\ hydrated' = [k \in Keys |-> TRUE]
    /\ localStorage' = PersistAll(localStorage, hydrated, mode, equity, priorEquity,
                                  todaysPnL, haltedExposure, customSettings)
    /\ drawdownMemo' = UseMemo(drawdownMemo, equity', priorEquity')
    /\ pendingEffects' = "update"
    /\ UNCHANGED <<page, exported, lastCustomEdit, sinceEdit, edits>>

\* the persist effects of the render after hydration
UpdateEffects ==
    /\ page = "open" /\ pendingEffects = "update"
    /\ localStorage' = PersistAll(localStorage, hydrated, mode, equity, priorEquity,
                                  todaysPnL, haltedExposure, customSettings)
    /\ pendingEffects' = "none"
    /\ UNCHANGED <<mode, equity, priorEquity, todaysPnL, haltedExposure,
                   customSettings, hydrated, drawdownMemo, page, exported,
                   lastCustomEdit, sinceEdit, edits>>

\* an event handler can run: its element is on the page, no effect is pending
CanAct == Rendered /\ pendingEffects = "none"

\* fault: selecting a preset copies its values into the custom settings
SetModeCopyingPreset(m) ==
    /\ CanAct
    /\ mode' = m
    /\ customSettings' = IF m = "Custom" THEN customSettings ELSE PRESET_MAP[m]
    /\ localStorage' =
           Persist(Persist(localStorage, "risk_mode", StringText(m), modeHydrated),
                   "custom_settings_v2", SettingsText(customSettings'),
                   customSettingsHydrated)
    /\ exported' = NoExport
    /\ sinceEdit' = IF m = "Custom" THEN sinceEdit ELSE sinceEdit \cup {"preset"}
    /\ UNCHANGED <<equity, priorEquity, todaysPnL, haltedExposure,
                   hydrated, drawdownMemo, page, pendingEffects, lastCustomEdit, edits>>

\* onClick={() => setMode(m)}, the render and the hook's persist effect
SetMode(m) ==
    /\ CanAct
    /\ mode' = m
    /\ localStorage' = Persist(localStorage, "risk_mode", StringText(m), modeHydrated)
    /\ exported' = NoExport
    /\ sinceEdit' = IF m = "Custom" THEN sinceEdit ELSE sinceEdit \cup {"preset"}
    /\ UNCHANGED <<equity, priorEquity, todaysPnL, haltedExposure, customSettings,
                   hydrated, drawdownMemo, page, pendingEffects, lastCustomEdit, edits>>

\* fault: the new equity is not written to localStorage
SetEquityUnsaved(v) ==
    /\ CanAct /\ edits < MaxEdits
    /\ equity' = v
    /\ drawdownMemo' = UseMemo(drawdownMemo, v, priorEquity)
    /\ exported' = NoExport
    /\ edits' = edits + 1
    /\ UNCHANGED <<mode, priorEquity, todaysPnL, haltedExposure, customSettings,
                   hydrated, page, pendingEffects, lastCustomEdit, sinceEdit,
                   localStorage>>

\* onChange={(e)=>setEquity(Number(e.target.value))}
SetEquity(v) ==
    /\ CanAct /\ edits < MaxEdits
    /\ equity' = v
    /\ localStorage' = Persist(localStorage, "equity", IntText(v), equityHydrated)
    /\ drawdownMemo' = UseMemo(drawdownMemo, v, priorEquity)
    /\ exported' = NoExport
    /\ edits' = edits + 1
    /\ UNCHANGED <<mode, priorEquity, todaysPnL, haltedExposure, customSettings,
                   hydrated, page, pendingEffects, lastCustomEdit,
                   sinceEdit>>

SetPriorEquity(v) ==
    /\ CanAct /\ edits < MaxEdits
    /\ priorEquity' = v
    /\ localStorage' = Persist(localStorage, "prior_equity", IntText(v), priorEquityHydrated)
    /\ drawdownMemo' = UseMemo(drawdownMemo, equity, v)
    /\ exported' = NoExport
    /\ edits' = edits + 1
    /\ UNCHANGED <<mode, equity, todaysPnL, haltedExposure, customSettings,
                   hydrated, page, pendingEffects, lastCustomEdit,
                   sinceEdit>>

SetTodaysPnL(v) ==
    /\ CanAct /\ edits < MaxEdits
    /\ todaysPnL' = v
    /\ localStorage' = Persist(localStorage, "todays_pnl", IntText(v), todaysPnLHydrated)
    /\ exported' = NoExport
    /\ edits' = edits + 1
    /\ UNCHANGED <<mode, equity, priorEquity, haltedExposure, customSettings,
                   hydrated, drawdownMemo, page, pendingEffects, lastCustomEdit,
                   sinceEdit>>

SetHaltedExposure(v) ==
    /\ CanAct /\ edits < MaxEdits
    /\ haltedExposure' = v
    /\ localStorage' = Persist(localStorage, "halted_exposure", IntText(v),
                               haltedExposureHydrated)
    /\ exported' = NoExport
    /\ edits' = edits + 1
    /\ UNCHANGED <<mode, equity, priorEquity, todaysPnL, customSettings,
                   hydrated, drawdownMemo, page, pendingEffects, lastCustomEdit,
                   sinceEdit>>

\* fault: the Custom Risk Settings section is shown in every mode
EditorOfferedInAnyMode == Rendered

\* {mode === "Custom" && (...)}: the Custom Risk Settings section is on the page
EditorOffered == Rendered /\ mode = "Custom"

\* setCustomSettings(next) from the Custom Risk Settings section
SetCustomSettings(next) ==
    /\ CanAct /\ EditorOffered /\ edits < MaxEdits
    /\ customSettings' = next
    /\ localStorage' = Persist(localStorage, "custom_settings_v2", SettingsText(next),
                               customSettingsHydrated)
    /\ lastCustomEdit' = next
    /\ sinceEdit' = {}
    /\ exported' = NoExport
    /\ edits' = edits + 1
    /\ UNCHANGED <<mode, equity, priorEquity, todaysPnL, haltedExposure,
                   hydrated, drawdownMemo, page, pendingEffects>>

\* a percent field: {...customSettings, f: Number(e.target.value) / 100}
EditRatio(f, v) == SetCustomSettings([customSettings EXCEPT ![f] = FDivInt(v, 100)])

\* the time field: {...customSettings, stopTime: e.target.value}
EditStopTime(v) == SetCustomSettings([customSettings EXCEPT !.stopTime = v])

\* fault: a count field's handler also writes maxOrderSize
EditCapAndOrderSize(f, v) ==
    SetCustomSettings([customSettings EXCEPT ![f] = v, !.maxOrderSize = v])

\* a count field: {...customSettings, f: Number(e.target.value)}
EditCap(f, v) == SetCustomSettings([customSettings EXCEPT ![f] = v])

\* a checkbox: {...customSettings, f: e.target.checked}
EditFlag(f, b) == SetCustomSettings([customSettings EXCEPT ![f] = b])

\* Reset to Defaults
ResetToDefaults == SetCustomSettings(PRESET_MAP.Custom)

\* fault: the export button is disabled while a validation error is shown
ExportOfferedWhenValid == Rendered /\ ~hasValidationErrors

\* the export button is on the page, and nothing disables it
ExportOffered == Rendered

\* the Export RiskControl.cfg button
ExportCfg ==
    /\ CanAct /\ ExportOffered
    /\ exported' = CfgLines
    /\ UNCHANGED <<mode, equity, priorEquity, todaysPnL, haltedExposure,
                   customSettings, hydrated, drawdownMemo, localStorage, page,
                   pendingEffects, lastCustomEdit, sinceEdit, edits>>

\* the tab is closed: the component's state is gone, localStorage stays
Unmount ==
    /\ page = "open"
    /\ page' = "closed"
    /\ pendingEffects' = "none"
    /\ mode' = "Standard"
    /\ equity' = 55000
    /\ priorEquity' = 55000
    /\ todaysPnL' = 0
    /\ haltedExposure' = 0
    /\ customSettings' = PRESET_MAP.Custom
    /\ hydrated' = [k \in Keys |-> FALSE]
    /\ drawdownMemo' = DefaultMemo
    /\ exported' = NoExport
    /\ UNCHANGED <<localStorage, lastCustomEdit, sinceEdit, edits>>

Next ==
    \/ Mount
    \/ MountEffects
    \/ UpdateEffects
    \/ \E m \in ModeInputs : SetMode(m)
    \/ \E v \in EquityInputs : SetEquity(v)
    \/ \E v \in PriorEquityInputs : SetPriorEquity(v)
    \/ \E v \in TodaysPnLInputs : SetTodaysPnL(v)
    \/ \E v \in HaltedExposureInputs : SetHaltedExposure(v)
    \/ \E f \in RatioFields, v \in PercentInputs : EditRatio(f, v)
    \/ \E v \in StopTimeInputs : EditStopTime(v)
    \/ \E f \in CapFields, v \in CapInputs : EditCap(f, v)
    \/ \E f \in FlagFields, b \in BOOLEAN : EditFlag(f, b)
    \/ ResetToDefaults
    \/ ExportCfg
    \/ Unmount

Spec == Init /\ [][Next]_vars

-----------------------------------------------------------------------------
(* The derivation engine over a grid of inputs: the page as the user's     *)
(* entries leave it, hydrated and with its effects flushed, the mode       *)
(* buttons and the export button.                                          *)

EquityGrid == {-55000, 0, 49500, 50000, 55000, 55001, 100000}
PriorEquityGrid == {-55000, 0, 55000}
TodaysPnLGrid == {0, -1375, -2200, -2201, -2475, -2476, 2201}
HaltedExposureGrid == {-1, 0, 11000, 11001, 22000, 22001}

\* the percent fields as the user types them into the Custom section
CustomPercents ==
    [dailyLossLimit |-> 5, totalLossLimit |-> 5, perSymbolLossLimit |-> 2,
     perSymbolExposureLimit |-> 15, totalExposureLimit |-> 50,
     profitLockStart |-> 9, profitLockDrawdown |-> 30]

\* the custom settings after those edits: each field is Number(value) / 100
EditedCustom ==
    [f \in Fields |->
        IF f \in RatioFields THEN FDivInt(CustomPercents[f], 100)
        ELSE PRESET_MAP.Custom[f]]

CustomGrid == {PRESET_MAP.Custom, EditedCustom}

InitCalc ==
    /\ mode \in Modes
    /\ equity \in EquityGrid
    /\ priorEquity \in PriorEquityGrid
    /\ todaysPnL \in TodaysPnLGrid
    /\ haltedExposure \in HaltedExposureGrid
    /\ customSettings \in CustomGrid
    /\ hydrated = [k \in Keys |-> TRUE]
    /\ drawdownMemo = UseMemo(DefaultMemo, equity, priorEquity)
    /\ localStorage = PersistAll(<<>>, hydrated, mode, equity, priorEquity,
                                 todaysPnL, haltedExposure, customSettings)
    /\ page = "open"
    /\ pendingEffects = "none"
    /\ exported = NoExport
    /\ lastCustomEdit = customSettings
    /\ sinceEdit = {"preset"}
    /\ edits = 0

NextCalc ==
    \/ \E m \in ModeInputs : SetMode(m)
    \/ ExportCfg

SpecCalc == InitCalc /\ [][NextCalc]_vars

-----------------------------------------------------------------------------
(* Exact arithmetic on dyadic rationals, to state what the rounded values  *)
(* must be: the records of Float, with significands of any length.         *)

Exact(n) == Float(IF n < 0 THEN 1 ELSE 0, BFromInt(Abs(n)), 0)

ExactMul(x, y) == Float((x.sgn + y.sgn) % 2, BMul(x.man, y.man), x.exp + y.exp)

ExactAdd(x, y) ==
    LET e  == Min(x.exp, y.exp)
        mx == Aligned(x, e)
        my == Aligned(y, e)
    IN  IF x.sgn = y.sgn THEN Float(x.sgn, BAdd(mx, my), e)
        ELSE IF BCmp(mx, my) >= 0 THEN Float(x.sgn, BSub(mx, my), e)
        ELSE Float(y.sgn, BSub(my, mx), e)

ExactSub(x, y) == ExactAdd(x, FNeg(y))

\* |x - t| <= tol
Within(x, t, tol) == FCmpMag(ExactSub(x, t), tol) <= 0

\* |t| * 2^(1 - Precision): what one rounding to nearest may move t by, twice
Ulp(t) == Float(0, t.man, t.exp + 1 - Precision)

\* x is t, rounded
RoundingOf(x, t) == Within(x, t, Ulp(t))

\* 10 * |used| > tenths * |limit|
Exceeds(used, tenths, limit) ==
    FCmpMag(ExactMul(Exact(10), used), ExactMul(Exact(tenths), limit)) > 0

\* Danger above 80% of the limit, Caution above 50%, else Safe
TriState(used, limit) ==
    IF Exceeds(used, 8, limit) THEN "Danger"
    ELSE IF Exceeds(used, 5, limit) THEN "Caution"
    ELSE "Safe"

\* the ratio f of the settings the mode selects
ActiveRatio(f) == IF mode = "Custom" THEN customSettings[f] ELSE PRESET_MAP[mode][f]

\* the document has the line key=text
HasLine(doc, key, text) == \E i \in 1..Len(doc) : doc[i] = <<key, text>>

\* 0 <= x <= 1
InUnit(x) == FLe(Exact(0), x) /\ FLe(x, Exact(1))

-----------------------------------------------------------------------------
(* Properties                                                              *)

\* C1: the stored custom settings are what the user's last custom-settings
\* edit or Reset to Defaults made them (the Custom defaults before any edit):
\* the item in localStorage reads back as that value, and the page holds it
\* whenever it shows its content. Selecting modes, editing the session
\* inputs, exporting and restarting never replace it.
CustomSettingsKept ==
    /\ HasItem("custom_settings_v2") =>
           ParseSettings(localStorage["custom_settings_v2"]) = lastCustomEdit
    /\ Rendered => customSettings = lastCustomEdit

\* an edit outlived a preset selection and a restart, and Custom is selected
CustomSettingsSurvived ==
    /\ CanAct /\ mode = "Custom"
    /\ sinceEdit = {"preset", "restart"}
    /\ customSettings # PRESET_MAP.Custom
    /\ customSettings = lastCustomEdit

StandardScenario ==
    /\ Rendered /\ mode = "Standard"
    /\ equity = 55000 /\ priorEquity = 55000 /\ todaysPnL = 0 /\ haltedExposure = 0

\* C2 (as the code has it): in the Standard scenario (equity = priorEquity =
\* 55000, todaysPnL = 0, haltedExposure = 0) drawdown is 0 and Safe,
\* remainingBudget is 0 and Safe, because the Standard preset's
\* dailyLossLimit is 0, haltedPct is 0 and Safe, and flattenNow is false.
StandardScenarioValues ==
    StandardScenario =>
        /\ FEq(drawdown, Exact(0)) /\ drawdownStatus = "Safe"
        /\ FEq(remainingBudget, Exact(0)) /\ remainingStatus = "Safe"
        /\ FEq(haltedPct, Exact(0)) /\ haltedStatus = "Safe"
        /\ ~flattenNow

\* the scenario is on the page, with no daily loss limit to spend
StandardScenarioShown == StandardScenario /\ FIsZero(dayLossLimit)

\* C2 as stated: the same scenario, with remainingBudget = -2750.
StandardScenarioAsStated ==
    StandardScenario =>
        /\ FEq(drawdown, Exact(0)) /\ drawdownStatus = "Safe"
        /\ FEq(remainingBudget, Exact(-2750)) /\ remainingStatus = "Safe"
        /\ FEq(haltedPct, Exact(0)) /\ haltedStatus = "Safe"
        /\ ~flattenNow

StandardExport ==
    Rendered /\ mode = "Standard" /\ equity = 100000 /\ exported # NoExport

\* C3 (as the code has it): the document exported for equity = 100000 in
\* Standard mode has the lines DayLossLimit=0, TotalLossLimit=-12000,
\* StopTime=15:30 and AutoStopLoss=1.
StandardExportLines ==
    StandardExport =>
        /\ HasLine(exported, "DayLossLimit", <<"0">>)
        /\ HasLine(exported, "TotalLossLimit", <<"-", "1", "2", "0", "0", "0">>)
        /\ HasLine(exported, "StopTime", <<"15:30">>)
        /\ HasLine(exported, "AutoStopLoss", <<"1">>)

\* the Standard document for equity = 100000 has been downloaded
StandardExported ==
    StandardExport /\ HasLine(exported, "#", <<"Mode: ", "Standard">>)

\* C3 as stated: the same document, with the line DayLossLimit=-5000.
StandardExportAsStated ==
    StandardExport =>
        /\ HasLine(exported, "DayLossLimit", <<"-", "5", "0", "0", "0">>)
        /\ HasLine(exported, "TotalLossLimit", <<"-", "1", "2", "0", "0", "0">>)
        /\ HasLine(exported, "StopTime", <<"15:30">>)
        /\ HasLine(exported, "AutoStopLoss", <<"1">>)

\* |todaysPnL| > 90% of |dayLossLimit|
DailyLossBreached == Exceeds(Exact(todaysPnL), 9, dayLossLimit)

\* C4: flattenNow is true exactly when |todaysPnL| > 0.9 * |dayLossLimit| or
\* haltedExposure / equity > 0.40 (equity > 0); the comparisons are strict:
\* with equity > 0 and the daily-loss condition false, flattenNow is false
\* at a ratio of exactly 0.40 and true above it.
FlattenNowStrict ==
    Rendered =>
        /\ flattenNow <=>
               (DailyLossBreached \/ (equity > 0 /\ 5 * haltedExposure > 2 * equity))
        /\ (equity > 0 /\ ~DailyLossBreached) =>
               /\ 5 * haltedExposure = 2 * equity => ~flattenNow
               /\ 5 * haltedExposure > 2 * equity => flattenNow

\* halted exposure at exactly 40% of equity, no daily-loss breach: no flatten
HaltedAtFortyPercent ==
    /\ Rendered /\ equity > 0 /\ ~DailyLossBreached
    /\ 5 * haltedExposure = 2 * equity
    /\ ~flattenNow

\* C5: the drawdown status is exact in the inputs: Danger when equity is 10%
\* or more below priorEquity, Caution when 5% or more below, else Safe.
DrawdownStatusExact ==
    Rendered =>
        drawdownStatus =
            IF priorEquity > 0 /\ 10 * equity <= 9 * priorEquity THEN "Danger"
            ELSE IF priorEquity > 0 /\ 20 * equity <= 19 * priorEquity THEN "Caution"
            ELSE "Safe"

\* a drawdown of exactly 10% is on the page as Caution
TenPercentDownIsCaution ==
    /\ Rendered /\ equity = 49500 /\ priorEquity = 55000
    /\ drawdownStatus = "Caution"

\* C6: drawdown is equity / priorEquity - 1, as the two roundings leave it,
\* when priorEquity > 0, and 0 otherwise, whatever equity is.
DrawdownIsQuotientLessOne ==
    Rendered =>
        IF priorEquity > 0
        THEN Within(ExactMul(drawdown, Exact(priorEquity)), Exact(equity - priorEquity),
                    Ulp(Exact(Abs(equity) + priorEquity)))
        ELSE FIsZero(drawdown)

\* a loss against a positive prior equity: the drawdown is negative
DrawdownOfLoss ==
    /\ Rendered /\ priorEquity > 0 /\ equity = 50000
    /\ drawdown.sgn = 1 /\ ~FIsZero(drawdown)

\* C7: remainingBudget is dayLossLimit - todaysPnL, and its status is Danger
\* if |todaysPnL| > 80% of |dayLossLimit|, else Caution if > 50%, else Safe.
RemainingBudgetAndStatus ==
    Rendered =>
        /\ RoundingOf(remainingBudget, ExactSub(dayLossLimit, Exact(todaysPnL)))
        /\ remainingStatus = TriState(Exact(todaysPnL), dayLossLimit)

\* a loss of exactly 80% of a nonzero daily limit is Caution
EightyPercentIsCaution ==
    /\ Rendered /\ ~FIsZero(dayLossLimit)
    /\ 10 * Abs(todaysPnL) = 8 * MathRound(lossLimit)
    /\ remainingStatus = "Caution"

\* C8: the Total Loss Used chip shows one tri-state status in its colour, icon
\* and label: Danger if |totalLossUsed| > 80% of |totalLossLimit|, else
\* Caution if > 50%, else Safe.
TotalLossIndicatorsAgree ==
    Rendered =>
        /\ totalLossChipColor
               = statusColor(TriState(Exact(todaysPnL + totalUnrealizedLoss), totalLossLimit))
        /\ totalLossChipIcon
               = statusIcon(TriState(Exact(todaysPnL + totalUnrealizedLoss), totalLossLimit))
        /\ totalLossChipLabel
               = TriState(Exact(todaysPnL + totalUnrealizedLoss), totalLossLimit)

\* the chip is yellow and labelled Danger
TotalLossChipDisagrees ==
    /\ Rendered /\ ~FIsZero(totalLossLimit)
    /\ totalLossChipColor = "bg-caution" /\ totalLossChipIcon = "yellow"
    /\ totalLossChipLabel = "Danger"

\* C9: haltedPct is haltedExposure / equity when equity > 0 and 0 otherwise;
\* its status is Danger above 0.40, else Caution above 0.20, else Safe.
HaltedPctAndStatus ==
    Rendered =>
        /\ IF equity > 0
           THEN Within(ExactMul(haltedPct, Exact(equity)), Exact(haltedExposure),
                       Ulp(Exact(haltedExposure)))
           ELSE FIsZero(haltedPct)
        /\ haltedStatus =
               IF equity > 0 /\ 5 * haltedExposure > 2 * equity THEN "Danger"
               ELSE IF equity > 0 /\ 5 * haltedExposure > equity THEN "Caution"
               ELSE "Safe"

\* halted exposure at exactly 20% of equity is Safe
HaltedAtTwentyPercent ==
    /\ Rendered /\ equity > 0 /\ 5 * haltedExposure = equity
    /\ haltedStatus = "Safe" /\ ~FIsZero(haltedPct)

\* C10: with the ratios of the active settings (the custom settings in
\* Custom mode, else the selected preset), dayLossLimit, totalLossLimit and
\* perSymbolLimit are -(equity * ratio) and perTickerExposure, totalExposure
\* and profitLockStart are equity * ratio; so with equity > 0 and ratios in
\* [0, 1] the loss limits are <= 0 and the others >= 0.
DollarLimits ==
    Rendered =>
        /\ RoundingOf(dayLossLimit,
                      FNeg(ExactMul(Exact(equity), ActiveRatio("dailyLossLimit"))))
        /\ RoundingOf(totalLossLimit,
                      FNeg(ExactMul(Exact(equity), ActiveRatio("totalLossLimit"))))
        /\ RoundingOf(perSymbolLimit,
                      FNeg(ExactMul(Exact(equity), ActiveRatio("perSymbolLossLimit"))))
        /\ RoundingOf(perTickerExposure,
                      ExactMul(Exact(equity), ActiveRatio("perSymbolExposureLimit")))
        /\ RoundingOf(totalExposure,
                      ExactMul(Exact(equity), ActiveRatio("totalExposureLimit")))
        /\ RoundingOf(profitLockStart,
                      ExactMul(Exact(equity), ActiveRatio("profitLockStart")))
        /\ (equity > 0 /\ \A f \in RatioFields : InUnit(ActiveRatio(f))) =>
               /\ FLe(dayLossLimit, Exact(0))
               /\ FLe(totalLossLimit, Exact(0))
               /\ FLe(perSymbolLimit, Exact(0))
               /\ FLe(Exact(0), perTickerExposure)
               /\ FLe(Exact(0), totalExposure)
               /\ FLe(Exact(0), profitLockStart)

\* the Standard limits of an equity of 100000
StandardLimits ==
    /\ Rendered /\ mode = "Standard" /\ equity = 100000
    /\ FEq(totalLossLimit, Exact(-12000)) /\ FEq(perSymbolLimit, Exact(-2000))
    /\ FEq(totalExposure, Exact(50000))

\* the setting f of the settings the mode selects
ActiveSetting(f) == IF mode = "Custom" THEN customSettings[f] ELSE PRESET_MAP[mode][f]

\* equity times the active ratio f, exactly
Dollar(f) == ExactMul(Exact(equity), ActiveRatio(f))

\* the key=value lines of a document, without comments and blank lines
SettingLines(doc) == SelectSeq(doc, LAMBDA l : l[1] \notin {"#", ""})

KeysOf(doc) == [i \in 1..Len(SettingLines(doc)) |-> SettingLines(doc)[i][1]]

\* the value of the first line with that key
ValueOf(doc, key) ==
    SettingLines(doc)[CHOOSE i \in 1..Len(SettingLines(doc)) :
                          /\ SettingLines(doc)[i][1] = key
                          /\ \A j \in 1..(i - 1) : SettingLines(doc)[j][1] # key][2]

ExportKeys ==
    <<"DayLossLimit", "TotalLossLimit", "PosUnrealLossLimit", "PosMktValueLimit",
      "OpenPosValueLimit", "ProfitLockStart", "ProfitLockDrawdown%", "StopTime",
      "AutoStopLoss", "DisableNewOrders", "LiquidateAllPositions",
      "MaxSharesPerPosition", "MaxOrderSize", "MaxDailyTrades", "MaxPositions">>

\* the text is an integer nearest to t, a product rounded once before
NearestTo(text, t) ==
    Within(Exact(ParseInt(text)), t, ExactAdd(Float(0, <<1>>, -1), Ulp(t)))

\* the text is 1 for true and 0 for false
OneOrZero(text, b) == text = (IF b THEN <<"1">> ELSE <<"0">>)

\* C11: the exported document is a function of the active settings and
\* equity: its key=value lines are the fifteen keys, each once, in the fixed
\* order, the dollar values and the percentage rounded to a nearest integer,
\* the booleans as 1 or 0, the time and the counts as they are.
ExportIsTheFifteenSettings ==
    (Rendered /\ exported # NoExport) =>
        /\ KeysOf(exported) = ExportKeys
        /\ NearestTo(ValueOf(exported, "DayLossLimit"), FNeg(Dollar("dailyLossLimit")))
        /\ NearestTo(ValueOf(exported, "TotalLossLimit"), FNeg(Dollar("totalLossLimit")))
        /\ NearestTo(ValueOf(exported, "PosUnrealLossLimit"),
                     FNeg(Dollar("perSymbolLossLimit")))
        /\ NearestTo(ValueOf(exported, "PosMktValueLimit"),
                     Dollar("perSymbolExposureLimit"))
        /\ NearestTo(ValueOf(exported, "OpenPosValueLimit"), Dollar("totalExposureLimit"))
        /\ NearestTo(ValueOf(exported, "ProfitLockStart"), Dollar("profitLockStart"))
        /\ NearestTo(ValueOf(exported, "ProfitLockDrawdown%"),
                     ExactMul(ActiveRatio("profitLockDrawdown"), Exact(100)))
        /\ ValueOf(exported, "StopTime") = <<ActiveSetting("stopTime")>>
        /\ OneOrZero(ValueOf(exported, "AutoStopLoss"), ActiveSetting("autoStopLoss"))
        /\ OneOrZero(ValueOf(exported, "DisableNewOrders"),
                     ActiveSetting("disableNewOrders"))
        /\ OneOrZero(ValueOf(exported, "LiquidateAllPositions"),
                     ActiveSetting("liquidateAllPositions"))
        /\ ParseInt(ValueOf(exported, "MaxSharesPerPosition"))
               = ActiveSetting("maxSharesPerPosition")
        /\ ParseInt(ValueOf(exported, "MaxOrderSize")) = ActiveSetting("maxOrderSize")
        /\ ParseInt(ValueOf(exported, "MaxDailyTrades")) = ActiveSetting("maxDailyTrades")
        /\ ParseInt(ValueOf(exported, "MaxPositions")) = ActiveSetting("maxPositions")

\* an export whose total exposure, 33000.6, was rounded up
ExportRoundedUp ==
    /\ Rendered /\ mode = "Aggressive" /\ equity = 55001 /\ exported # NoExport
    /\ ValueOf(exported, "OpenPosValueLimit") = <<"3", "3", "0", "0", "1">>

\* C12: a validation error (equity <= 0, priorEquity <= 0, haltedExposure
\* < 0) is a flag and nothing more: with a flag up, the metrics are those of
\* the raw entries (a negative equity gives limits of the opposite sign, a
\* negative exposure a negative ratio), the export button works, and a
\* document exported holds the values of the raw entries.
ValidationOnlyFlags ==
    /\ Rendered =>
           hasValidationErrors <=> (equity <= 0 \/ priorEquity <= 0 \/ haltedExposure < 0)
    /\ (CanAct /\ hasValidationErrors) =>
           /\ ExportOffered
           /\ RoundingOf(totalLossLimit, FNeg(Dollar("totalLossLimit")))
           /\ RoundingOf(totalExposure, Dollar("totalExposureLimit"))
           /\ remainingStatus = TriState(Exact(todaysPnL), dayLossLimit)
           /\ equity > 0 =>
                  Within(ExactMul(haltedPct, Exact(equity)), Exact(haltedExposure),
                         Ulp(Exact(haltedExposure)))
           /\ priorEquity > 0 =>
                  Within(ExactMul(drawdown, Exact(priorEquity)),
                         Exact(equity - priorEquity),
                         Ulp(Exact(Abs(equity) + priorEquity)))
           /\ exported # NoExport =>
                  /\ NearestTo(ValueOf(exported, "TotalLossLimit"),
                               FNeg(Dollar("totalLossLimit")))
                  /\ NearestTo(ValueOf(exported, "OpenPosValueLimit"),
                               Dollar("totalExposureLimit"))

\* a document exported from a negative equity, its loss limit positive
ExportedWithInvalidEquity ==
    /\ Rendered /\ validationErrors.equity /\ mode = "Standard" /\ equity = -55000
    /\ exported # NoExport
    /\ ValueOf(exported, "TotalLossLimit") = <<"6", "6", "0", "0">>

\* the value a hook holds
CurrentValue(key) ==
    CASE key = "risk_mode" -> mode
      [] key = "equity" -> equity
      [] key = "prior_equity" -> priorEquity
      [] key = "todays_pnl" -> todaysPnL
      [] key = "halted_exposure" -> haltedExposure
      [] key = "custom_settings_v2" -> customSettings

\* its JSON text
CurrentText(key) ==
    CASE key = "risk_mode" -> StringText(mode)
      [] key = "custom_settings_v2" -> SettingsText(customSettings)
      [] OTHER -> IntText(CurrentValue(key))

\* what the item of the key reads back as
StoredValue(key) ==
    CASE key = "risk_mode" -> ParseString(localStorage[key])
      [] key = "custom_settings_v2" -> ParseSettings(localStorage[key])
      [] OTHER -> ParseInt(localStorage[key])

\* C13: once the page is hydrated and its effects have run, every key holds
\* the JSON text of its hook's current value; whenever the page shows its
\* content, each value reads back from its item, if there is one, as it is
\* (so a session hydrates to what the items hold, the default only where
\* there is no item); and closing and opening the page leave the items alone.
PersistenceRoundTrip ==
    /\ [](CanAct => \A key \in Keys : HasItem(key) /\ localStorage[key] = CurrentText(key))
    /\ [](Rendered => \A key \in Keys : HasItem(key) => CurrentValue(key) = StoredValue(key))
    /\ [][(page = "closed" \/ page' = "closed") => localStorage' = localStorage]_vars

\* a later session has just hydrated to the equity and the custom settings
\* of an earlier one
HydratedFromEarlierSession ==
    /\ Rendered /\ pendingEffects = "update" /\ "restart" \in sinceEdit
    /\ mode = "Custom" /\ equity = 100000
    /\ customSettings # PRESET_MAP.Custom

\* C14: whenever the page shows its content, each of the seven ratios of the
\* active settings is in [0, 1].
ActiveRatiosInUnit ==
    Rendered => \A f \in RatioFields : InUnit(ActiveSetting(f))

\* Custom is selected and its daily loss limit is 150%
RatioAboveOne ==
    /\ Rendered /\ mode = "Custom"
    /\ FEq(ActiveSetting("dailyLossLimit"), ExactMul(Exact(3), Float(0, <<1>>, -1)))

\* d is e / p - 1 as two roundings leave it, or 0 when p <= 0
IsDrawdownOf(d, e, p) ==
    IF p > 0
    THEN Within(ExactMul(d, Exact(p)), Exact(e - p), Ulp(Exact(Abs(e) + p)))
    ELSE FIsZero(d)

\* C15: what the page displays is never stale: the memoized drawdown is that
\* of the current equity and priorEquity, the limits, statuses and flattenNow
\* are those of the current mode, settings and inputs; and localStorage holds
\* the six entries only, no derived value.
DerivedNeverStale ==
    /\ DOMAIN localStorage \subseteq Keys
    /\ Rendered =>
           /\ IsDrawdownOf(drawdown, equity, priorEquity)
           /\ RoundingOf(dayLossLimit, FNeg(Dollar("dailyLossLimit")))
           /\ RoundingOf(totalLossLimit, FNeg(Dollar("totalLossLimit")))
           /\ RoundingOf(totalExposure, Dollar("totalExposureLimit"))
           /\ remainingStatus = TriState(Exact(todaysPnL), dayLossLimit)
           /\ haltedStatus =
                  IF equity > 0 /\ 5 * haltedExposure > 2 * equity THEN "Danger"
                  ELSE IF equity > 0 /\ 5 * haltedExposure > equity THEN "Caution"
                  ELSE "Safe"
           /\ flattenNow <=>
                  (DailyLossBreached \/ (equity > 0 /\ 5 * haltedExposure > 2 * equity))

\* both inputs of the drawdown were changed, one after the other, and the
\* page shows the drawdown of the new pair
DrawdownAfterTwoEdits ==
    /\ Rendered /\ equity = 100000 /\ priorEquity = 50000
    /\ FEq(drawdown, Exact(1))

\* C16: while the six hooks are not all hydrated the page shows no content,
\* offers no export and runs no handler; in such a step nothing is exported
\* and each value either stays or becomes what its item holds; and an export,
\* once there is one, was made by a hydrated page from the values its items
\* hold.
LoadingUntilHydrated ==
    /\ [](~isHydrated => ~Rendered /\ ~ExportOffered /\ ~CanAct)
    /\ [](exported # NoExport =>
              /\ isHydrated /\ exported = CfgLines
              /\ \A key \in Keys : HasItem(key) /\ StoredValue(key) = CurrentValue(key))
    /\ [][~isHydrated =>
              /\ exported' = NoExport
              /\ \A key \in Keys :
                     \/ CurrentValue(key)' = CurrentValue(key)
                     \/ HasItem(key) /\ CurrentValue(key)' = StoredValue(key)]_vars

\* the first render of a session whose items differ from the defaults
LoadingOverStoredValues ==
    /\ page = "open" /\ ~isHydrated
    /\ HasItem("equity") /\ StoredValue("equity") = 100000 /\ equity = 55000
    /\ HasItem("risk_mode") /\ StoredValue("risk_mode") = "Aggressive"

\* the JSON text of the value a hook starts from
DefaultText(key) ==
    CASE key = "risk_mode" -> StringText("Standard")
      [] key = "equity" -> IntText(55000)
      [] key = "prior_equity" -> IntText(55000)
      [] key = "todays_pnl" -> IntText(0)
      [] key = "halted_exposure" -> IntText(0)
      [] key = "custom_settings_v2" -> SettingsText(PRESET_MAP.Custom)

\* C17: for every key, a step taken while the key's hook is not hydrated
\* leaves localStorage as it is (the load comes before any write); the first
\* writes of a session, made by the render after hydration unless the page is
\* closed before, leave an item that was there as it was and give a key
\* without an item the default's text.
NoWriteBeforeRead ==
    [][\A key \in Keys :
           /\ ~hydrated[key] => localStorage' = localStorage
           /\ pendingEffects = "update" /\ page' = "open" =>
                  /\ hydrated[key] /\ HasItem(key)'
                  /\ localStorage'[key] =
                         IF HasItem(key) THEN localStorage[key] ELSE DefaultText(key)]_vars

\* a later session, its first writes done: the items still hold the equity
\* and P&L entered in the session before
StoredValuesKeptOverRestart ==
    /\ CanAct /\ "restart" \in sinceEdit /\ edits = MaxEdits
    /\ localStorage["equity"] = IntText(100000) /\ equity = 100000
    /\ localStorage["todays_pnl"] = IntText(-2500) /\ todaysPnL = -2500

\* C18: the Custom Risk Settings section is offered in Custom mode only; a
\* step of the displayed page taken in a preset mode leaves the custom
\* settings, and what their item holds, as they are; and in a preset mode the
\* active settings are that mode's entry of PRESET_MAP.
CustomChangesOnlyInCustom ==
    /\ [](EditorOffered => mode = "Custom")
    /\ [](Rendered /\ mode # "Custom" => currentSettings = PRESET_MAP[mode])
    /\ [][Rendered /\ Rendered' /\ mode # "Custom" =>
              /\ customSettings' = customSettings
              /\ HasItem("custom_settings_v2") =>
                     localStorage'["custom_settings_v2"] = localStorage["custom_settings_v2"]]_vars

\* Aggressive is selected while the custom settings hold two edits
PresetActiveOverEditedCustom ==
    /\ CanAct /\ mode = "Aggressive" /\ edits = MaxEdits
    /\ customSettings.maxPositions = 100
    /\ FEq(customSettings.totalLossLimit, Dec(5, 2))
    /\ currentSettings = PRESET_MAP.Aggressive

\* C19: a handler's step on the displayed page changes at most one of the six
\* values, and no item but that value's; a change of mode leaves the four
\* inputs and the custom settings, a change of an input leaves the mode, the
\* other inputs and the custom settings, and a change of the custom settings
\* leaves the mode and the inputs; it changes one field only, unless it is
\* the reset to PRESET_MAP.Custom.
OneEntryPerAction ==
    [][CanAct /\ page' = "open" =>
           /\ Cardinality({key \in Keys : CurrentValue(key)' # CurrentValue(key)}) <= 1
           /\ \A key \in Keys :
                  CurrentValue(key)' = CurrentValue(key) =>
                      localStorage'[key] = localStorage[key]
           /\ mode' # mode =>
                  /\ <<equity, priorEquity, todaysPnL, haltedExposure>>'
                         = <<equity, priorEquity, todaysPnL, haltedExposure>>
                  /\ customSettings' = customSettings
           /\ customSettings' # customSettings =>
                  /\ <<mode, equity, priorEquity, todaysPnL, haltedExposure>>'
                         = <<mode, equity, priorEquity, todaysPnL, haltedExposure>>
                  /\ \/ customSettings' = PRESET_MAP.Custom
                     \/ Cardinality({f \in Fields : customSettings'[f] # customSettings[f]}) = 1
           /\ \A key \in Keys \ {"risk_mode", "custom_settings_v2"} :
                  CurrentValue(key)' # CurrentValue(key) =>
                      /\ mode' = mode /\ customSettings' = customSettings
                      /\ \A other \in Keys \ {key} :
                             CurrentValue(other)' = CurrentValue(other)]_vars

\* two fields of the custom settings were edited one after the other, and
\* the first edit is still there
TwoFieldsEditedInTurn ==
    /\ CanAct /\ mode = "Custom" /\ edits = MaxEdits
    /\ customSettings = [PRESET_MAP.Custom EXCEPT !.stopTime = "09:45",
                                                  !.maxDailyTrades = 100]
    /\ equity = 55000 /\ todaysPnL = 0

\* C20: whenever the page shows flattenNow, the remaining-budget status or
\* the halted-exposure status is Danger; with both of them Safe or Caution,
\* flattenNow is false.
FlattenNowImpliesDanger ==
    Rendered =>
        /\ flattenNow => remainingStatus = "Danger" \/ haltedStatus = "Danger"
        /\ remainingStatus \in {"Safe", "Caution"} /\ haltedStatus \in {"Safe", "Caution"}
               => ~flattenNow

\* flattenNow comes from the halted exposure alone: the loss is at 80% of the
\* daily limit, which is Caution
FlattenNowFromHaltedOnly ==
    /\ Rendered /\ flattenNow /\ mode = "Custom" /\ equity = 55000
    /\ todaysPnL = -2200 /\ remainingStatus = "Caution"
    /\ haltedExposure = 22001 /\ haltedStatus = "Danger"

=============================================================================
